---- MODULE Spec2Model ----
(***************************************************************************)
(* The tag collection controller of packages/tags/src/tags.tsx: the        *)
(* TagsInput component's state (the collection held by the controllable    *)
(* state container), its configuration props, and the addTags / removeTag  *)
(* operations it hands to its descendants.                                 *)
(*                                                                         *)
(* Strings are sequences of character codes, so that String() and          *)
(* toLowerCase() are computed and not assumed.  A primitive is a           *)
(* record [isNum, chars, num]; a tag is a record [obj, value, label]: a    *)
(* primitive tag has obj = FALSE, a structured tag { value, label } has    *)
(* obj = TRUE and label standing for its host-defined fields.              *)
(***************************************************************************)
EXTENDS Integers, Sequences, FiniteSets, TLC

VARIABLES
    maxTags,                 \* prop maxTags   (Undefined when not supplied)
    minTags,                 \* prop minTags   (Undefined when not supplied)
    allowDuplicates,         \* prop allowDuplicates
    caseSensitiveDuplicates, \* prop caseSensitiveDuplicates
    disabled,                \* prop disabled
    readOnly,                \* prop readOnly
    parseInput,              \* TRUE when the host supplied a parseInput function
    store,                   \* the collection the state container holds
    tags,                    \* the collection of the last render (what the closures captured)
    call,                    \* the controller call made last, with the collection it found
    onChange,                \* the change notifications the last call issued, in order
    writes,                  \* the collection replacements the last call performed
    keyboardCommands,        \* prop keyboardCommands (a map from keys to actions)
    delimiters,              \* prop delimiters of the text input, in order
    delimitersFresh,         \* TRUE when the delimiters array is a new one on every render
    lastIndex,               \* delimiterRegex.lastIndex (the regex has the g flag)
    inputValue,              \* inputRef.current.value, the raw text of the text input
    clipboardData,           \* the text the clipboard holds
    focus,                   \* document.activeElement: a tag item, the text input, or the body
    itemDisabled,            \* the key indexes whose tag item has the prop disabled
    event,                   \* the event handled last, with what it found
    valueProp,               \* the value prop of a second, controlled controller
    valuePropOnChange        \* the change notifications the controlled controller issued last

vars == <<maxTags, minTags, allowDuplicates, caseSensitiveDuplicates, disabled,
          readOnly, parseInput, store, tags, call, onChange, writes,
          keyboardCommands, delimiters, delimitersFresh, lastIndex, inputValue,
          clipboardData, focus, itemDisabled, event, valueProp, valuePropOnChange>>

config == <<maxTags, minTags, allowDuplicates, caseSensitiveDuplicates, disabled,
            readOnly, parseInput>>

\* The props and the state of the elements inside the controller.
ui == <<keyboardCommands, delimiters, delimitersFresh, lastIndex, inputValue,
        clipboardData, focus, itemDisabled, event>>

\* The props of the elements, and the clipboard: no handler writes them.
host == <<keyboardCommands, delimiters, delimitersFresh, clipboardData, itemDisabled>>

\* The controlled controller that runs beside the uncontrolled one.
pair == <<valueProp, valuePropOnChange>>

---------------------------------------------------------------------------
(* Bounds of the model.                                                    *)

MaxBatch == 2       \* longest candidate list handed to addTags
MaxLen == 3         \* longest collection the model lets addTags build
MaxMaxTags == 2     \* largest maxTags prop
MaxMinTags == 1     \* largest minTags prop
MaxText == 3        \* longest raw text drawn from the alphabet

---------------------------------------------------------------------------
(* Values.                                                                 *)

\* A prop that was not supplied (JavaScript undefined).
Undefined == -1

\* `maxTags && ...`: undefined and 0 are both falsy.
Truthy(n) == n # Undefined /\ n # 0

Str(s) == [isNum |-> FALSE, chars |-> s, num |-> 0]
Num(n) == [isNum |-> TRUE, chars |-> <<>>, num |-> n]

\* Character codes of the strings the model uses.
Red == <<82, 101, 100>>
red == <<114, 101, 100>>
One == <<49>>

\* The primitives a caller passes to addTags.
Primitives == {Str(Red), Str(red), Num(1)}

\* A primitive tag, and a structured tag { value: p, label: l }.
PrimitiveTag(p) == [obj |-> FALSE, value |-> p, label |-> 0]
ObjectTag(p, l) == [obj |-> TRUE, value |-> p, label |-> l]

\* The initial collections (value / defaultValue) the model starts from:
\* primitive and structured tags, a number held as a string, and a collection
\* the host filled with a repeated value.
InitialCollections ==
    {<<>>,
     <<PrimitiveTag(Str(Red))>>,
     <<ObjectTag(Str(red), 2)>>,
     <<PrimitiveTag(Str(One)), ObjectTag(Str(Red), 2)>>,
     <<ObjectTag(Num(1), 2), PrimitiveTag(Str(red))>>,
     <<PrimitiveTag(Str(Red)), PrimitiveTag(Str(Red))>>,
     <<PrimitiveTag(Str(red)), PrimitiveTag(Num(1)), ObjectTag(Str(Red), 2)>>}

RECURSIVE SeqsUpTo(_, _)
SeqsUpTo(S, n) ==
    IF n = 0 THEN {<<>>}
    ELSE LET shorter == SeqsUpTo(S, n - 1)
         IN  shorter \cup {Append(s, x) : s \in {t \in shorter : Len(t) = n - 1}, x \in S}

(* The argument of addTags: null/undefined, one primitive, or an array.    *)
NullInput == [kind |-> "null", items |-> <<>>]
Single(p) == [kind |-> "single", items |-> <<p>>]
Array(ps) == [kind |-> "array", items |-> ps]

\* The batch of three different candidates of the truncation scenario.
ScenarioBatch == <<Str(Red), Num(1), Str(red)>>

\* The candidate lists handed to addTags: every list of the two strings up to
\* MaxBatch long, and lists that hold the number.
Batches ==
    SeqsUpTo({Str(Red), Str(red)}, MaxBatch)
        \cup {<<Num(1)>>, <<Num(1), Num(1)>>, <<Num(1), Str(red)>>,
              <<Str(Red), Num(1)>>, ScenarioBatch}

Inputs ==
    {NullInput} \cup {Single(p) : p \in Primitives}
                \cup {Array(ps) : ps \in Batches}

(* The argument of removeTag, a JavaScript number: a whole number n, the   *)
(* fraction n + 1/2, or NaN.                                               *)
Whole(n) == [kind |-> "whole", n |-> n]
Half(n) == [kind |-> "half", n |-> n]
NaN == [kind |-> "nan", n |-> 0]

Indexes ==
    {Whole(n) : n \in -1 .. MaxLen} \cup {Half(-1), Half(0), NaN}

(* document.activeElement: the tag item of a key index, the text input, or  *)
(* the body when neither has the focus.                                    *)
Focused(keyIndex) == [at |-> "tag", keyIndex |-> keyIndex]
TextEntry == [at |-> "input", keyIndex |-> 0]
Body == [at |-> "body", keyIndex |-> 0]
Inside(keyIndex) == [at |-> "delete", keyIndex |-> keyIndex]

---------------------------------------------------------------------------
(* String(), toLowerCase(), normalizeTag.                                  *)

RECURSIVE Digits(_)
Digits(n) == IF n < 10 THEN <<48 + n>> ELSE Append(Digits(n \div 10), 48 + (n % 10))

\* String(p) of a primitive.
String(p) == IF p.isNum THEN Digits(p.num) ELSE p.chars

toLowerCase(s) ==
    [i \in 1 .. Len(s) |-> IF s[i] >= 65 /\ s[i] <= 90 THEN s[i] + 32 ELSE s[i]]

isObject(tag) == tag.obj

\* Mutant: the caseSensitive flag is ignored, values are compared as written.
normalizeTagCaseKept(tag, caseSensitive) == String(tag.value)

\* Mutant: a structured tag is compared with its host-defined field included.
normalizeTagWholeObject(tag, caseSensitive) ==
    LET v == IF caseSensitive THEN String(tag.value) ELSE toLowerCase(String(tag.value))
    IN  IF isObject(tag) THEN Append(v, tag.label) ELSE v

normalizeTag(tag, caseSensitive) ==
    IF isObject(tag)
    THEN IF caseSensitive THEN String(tag.value) ELSE toLowerCase(String(tag.value))
    ELSE IF caseSensitive THEN String(tag.value) ELSE toLowerCase(String(tag.value))

---------------------------------------------------------------------------
(* The controller: TagsInput.                                              *)

\* Mutant: readOnly is left out of the flag.
isTagNonInteractiveDisabledOnly == disabled

isTagNonInteractive == disabled \/ readOnly

\* The parseInput of the host: wraps the primitive in a structured tag with
\* one host-defined field.
memoizedParseInput(p) == ObjectTag(p, 1)

\* Mutant: the candidates accepted earlier in the batch are not consulted.
isDuplicateOfExistingOnly(normalizedTag, uniqueNormalizedTags, normalizedExistingTags) ==
    normalizedTag \in normalizedExistingTags

\* Mutant: the tags of the collection are not consulted.
isDuplicateOfBatchOnly(normalizedTag, uniqueNormalizedTags, normalizedExistingTags) ==
    normalizedTag \in uniqueNormalizedTags

isDuplicate(normalizedTag, uniqueNormalizedTags, normalizedExistingTags) ==
    \/ normalizedTag \in uniqueNormalizedTags
    \/ normalizedTag \in normalizedExistingTags

\* Mutant: the existing tags are normalized without the case policy.
normalizedExistingTagsCaseKept ==
    {normalizeTag(tags[i], TRUE) : i \in 1 .. Len(tags)}

normalizedExistingTags ==
    {normalizeTag(tags[i], caseSensitiveDuplicates) : i \in 1 .. Len(tags)}

parsedTag(singleTag) ==
    IF parseInput THEN memoizedParseInput(singleTag) ELSE PrimitiveTag(singleTag)

\* Mutant: the loop stops one candidate late.
loopBreaksLate(tagsToAdd) ==
    Truthy(maxTags) /\ Len(tags) + Len(tagsToAdd) > maxTags

\* The maxTags test made before each candidate of the loop.
loopBreaks(tagsToAdd) ==
    Truthy(maxTags) /\ Len(tags) + Len(tagsToAdd) >= maxTags

\* The for loop of addTags over arrayTags, from candidate i on: the tags to add.
RECURSIVE addLoop(_, _, _, _)
addLoop(arrayTags, i, tagsToAdd, uniqueNormalizedTags) ==
    IF i > Len(arrayTags) THEN tagsToAdd
    ELSE LET parsed == parsedTag(arrayTags[i])
             normalizedTag == normalizeTag(parsed, caseSensitiveDuplicates)
         IN  IF loopBreaks(tagsToAdd) THEN tagsToAdd
             ELSE IF allowDuplicates
                  THEN addLoop(arrayTags, i + 1, Append(tagsToAdd, parsed),
                               uniqueNormalizedTags)
             ELSE IF ~isDuplicate(normalizedTag, uniqueNormalizedTags,
                                  normalizedExistingTags)
                  THEN addLoop(arrayTags, i + 1, Append(tagsToAdd, parsed),
                               uniqueNormalizedTags \cup {normalizedTag})
             ELSE addLoop(arrayTags, i + 1, tagsToAdd, uniqueNormalizedTags)

\* Array.isArray(tag) ? tag : [tag]
arrayTags(tag) == tag.items

\* Mutant: addTags without the minTags pre-check.
addTagsReturnsEarlyNoMinTagsPreCheck(tag) ==
    \/ isTagNonInteractive
    \/ tag.kind = "null"
    \/ (Truthy(maxTags) /\ Len(tags) >= maxTags)

\* Mutant: the minTags pre-check lets a collection one short of minTags through.
addTagsReturnsEarlyOneShortOfMinTags(tag) ==
    \/ isTagNonInteractive
    \/ tag.kind = "null"
    \/ (Truthy(maxTags) /\ Len(tags) >= maxTags)
    \/ (Truthy(minTags) /\ Len(tags) + 1 < minTags)

\* The early returns of addTags before the loop.
addTagsReturnsEarly(tag) ==
    \/ isTagNonInteractive
    \/ tag.kind = "null"
    \/ (Truthy(maxTags) /\ Len(tags) >= maxTags)
    \/ (Truthy(minTags) /\ Len(tags) < minTags)

\* Mutant: the post-check also rejects a batch of which a candidate was left out.
tagsToAddAllOrNothing(tag) ==
    IF addTagsReturnsEarly(tag) THEN <<>>
    ELSE LET toAdd == addLoop(arrayTags(tag), 1, <<>>, {})
         IN  IF Truthy(minTags) /\ (\/ Len(tags) + Len(toAdd) < minTags
                                    \/ Len(toAdd) < Len(arrayTags(tag)))
             THEN <<>>
             ELSE toAdd

\* The tags addTags hands to setTags; the empty list when it writes nothing.
tagsToAdd(tag) ==
    IF addTagsReturnsEarly(tag) THEN <<>>
    ELSE LET toAdd == addLoop(arrayTags(tag), 1, <<>>, {})
         IN  IF Truthy(minTags) /\ Len(tags) + Len(toAdd) < minTags
             THEN <<>>
             ELSE toAdd

\* Mutant: the guard without the Number.isInteger test.
removeTagReturnsEarlyNoIntegerTest(index) ==
    \/ isTagNonInteractive
    \/ index.n < 0
    \/ index.n >= Len(tags)

\* Mutant: a removal that would leave fewer than minTags tags is refused.
removeTagReturnsEarlyBelowMinTags(index) ==
    \/ isTagNonInteractive
    \/ index.kind # "whole"
    \/ index.n < 0
    \/ index.n >= Len(tags)
    \/ (Truthy(minTags) /\ Len(tags) - 1 < minTags)

\* The guard of removeTag: index < 0 || index >= tags.length || !Number.isInteger(index)
removeTagReturnsEarly(index) ==
    \/ isTagNonInteractive
    \/ (index.kind = "whole" /\ index.n < 0)
    \/ (index.kind = "half" /\ index.n < 0)
    \/ (index.kind = "whole" /\ index.n >= Len(tags))
    \/ (index.kind = "half" /\ index.n >= Len(tags))
    \/ index.kind # "whole"

\* Mutant: removeTag leaves the focus where it is.
removeTagFocusKept(index) == focus

\* document.activeElement when removeTag has run: inputRef.current?.focus()
\* after the write.
removeTagFocus(index) ==
    IF removeTagReturnsEarly(index) THEN focus ELSE TextEntry

\* Mutant: the index is taken as 1-based.
spliceOneBased(list, index) ==
    [i \in 1 .. Len(list) - 1 |-> IF i < index THEN list[i] ELSE list[i + 1]]

\* [...tags] with splice(index, 1) applied, index a whole number (0-based).
splice(list, index) ==
    [i \in 1 .. Len(list) - 1 |-> IF i <= index THEN list[i] ELSE list[i + 1]]

---------------------------------------------------------------------------
(* The writes of one call, and the state container (useControllableState)  *)
(* that carries them out.                                                  *)

\* What an updater function receives as the previous collection: the
\* collection the container holds (the value prop of a host that owns it, the
\* local state otherwise).
prevTags == store

\* Mutant: one setTags call per accepted candidate.
addTagsWritesPerCandidate(tag) ==
    [i \in 1 .. Len(tagsToAdd(tag)) |-> prevTags \o SubSeq(tagsToAdd(tag), 1, i)]

\* The setTags calls of one addTags call, each given by the collection it
\* writes: one call, setTags((prevTags) => [...prevTags, ...tagsToAdd]), made
\* only when tagsToAdd is not empty.
addTagsWrites(tag) ==
    IF Len(tagsToAdd(tag)) > 0
    THEN <<prevTags \o tagsToAdd(tag)>>
    ELSE <<>>

\* The setTags calls of one removeTag call: setTags(updatedTags) unless the
\* guard returns.
removeTagWrites(index) ==
    IF removeTagReturnsEarly(index)
    THEN <<>>
    ELSE <<splice(tags, index.n)>>

\* The container carries out the writes of a call in order: each replaces the
\* collection as a whole (the host of a controlled container stores what
\* onChange hands it) and notifies the host with the full next collection.
setTags(nexts) ==
    /\ store' = IF nexts = <<>> THEN store ELSE nexts[Len(nexts)]
    /\ onChange' = nexts
    /\ writes' = Len(nexts)

\* React re-renders after the event: the closures of the next event see the
\* collection the container now holds.
render == tags' = store'

\* Mutant: the controlled container hands an updater the local value it never
\* wrote.
controlledPrevTagsLocal == <<>>

\* What an updater receives as the previous collection in a controlled
\* container: the collection its owner supplies.
controlledPrevTags == valueProp

\* The setTags calls of one addTags call of the controlled controller.
controlledAddTagsWrites(tag) ==
    IF Len(tagsToAdd(tag)) > 0
    THEN <<controlledPrevTags \o tagsToAdd(tag)>>
    ELSE <<>>

\* The controlled container carries out the writes of a call: it keeps nothing
\* and forwards each next collection to its owner through onChange; the owner
\* stores what it is handed and passes it back as the value prop.
setValueProp(nexts) ==
    /\ valueProp' = IF nexts = <<>> THEN valueProp ELSE nexts[Len(nexts)]
    /\ valuePropOnChange' = nexts

---------------------------------------------------------------------------
(* Keyboard commands.                                                      *)

\* The keys the model presses: the five keys with a default binding, a key a
\* host binds (Escape) and a key nobody binds.
Keys == {"Enter", "Delete", "Backspace", "ArrowLeft", "ArrowRight", "Escape", "a"}

\* enum TagsInputKeyActions
TagsInputKeyActions ==
    [Add |-> "add", Remove |-> "remove", NavigateLeft |-> "navigateLeft",
     NavigateRight |-> "navigateRight"]

\* keyBindings[e.key] of a key the map does not hold (undefined).
NoAction == "undefined"

defaultKeyBindings ==
    [k \in {"Enter", "Delete", "Backspace", "ArrowLeft", "ArrowRight"} |->
        CASE k = "Enter" -> TagsInputKeyActions.Add
          [] k = "Delete" -> TagsInputKeyActions.Remove
          [] k = "Backspace" -> TagsInputKeyActions.Remove
          [] k = "ArrowLeft" -> TagsInputKeyActions.NavigateLeft
          [] k = "ArrowRight" -> TagsInputKeyActions.NavigateRight]

\* The keyboardCommands props a host passes: none (the default parameter,
\* defaultKeyBindings itself), one new key, one default key given another
\* action.
OnlyEscape == [k \in {"Escape"} |-> TagsInputKeyActions.Remove]
EnterRemoves ==
    [k \in {"Enter", "a"} |->
        IF k = "Enter" THEN TagsInputKeyActions.Remove ELSE TagsInputKeyActions.Add]
KeyboardCommands == {defaultKeyBindings, OnlyEscape, EnterRemoves}

\* Mutant: the host's map replaces the default one.
keyBindingsHostOnly == keyboardCommands

\* { ...defaultKeyBindings, ...keyboardCommands }
keyBindings ==
    [k \in DOMAIN defaultKeyBindings \cup DOMAIN keyboardCommands |->
        IF k \in DOMAIN keyboardCommands
        THEN keyboardCommands[k]
        ELSE defaultKeyBindings[k]]

\* keyBindings[e.key]
action(key) == IF key \in DOMAIN keyBindings THEN keyBindings[key] ELSE NoAction

---------------------------------------------------------------------------
(* The delimiter parser of the text input: the regex built from the        *)
(* delimiters prop, and processInputValue.  Positions in a string are      *)
(* 1-based here; lastIndex keeps JavaScript's 0-based count.               *)

\* enum Delimiters
Delimiters == [Comma |-> ",", Semicolon |-> ";", Space |-> " "]

\* \s, on the characters of the model: tab, line feed, vertical tab, form
\* feed, carriage return, space.
isWhitespace(c) == c \in {9, 10, 11, 12, 13, 32}

\* The length of the longest run of whitespace of s that starts at p (\s*).
RECURSIVE whitespaceRun(_, _)
whitespaceRun(s, p) ==
    IF p <= Len(s) /\ isWhitespace(s[p]) THEN 1 + whitespaceRun(s, p + 1) ELSE 0

\* DelimiterPatterns[delimiter] matched at position p of s: the length of the
\* match, 0 when the pattern does not match there.  /,\s*/  /;\s*/  /\s+/
DelimiterPatterns(delimiter, s, p) ==
    CASE delimiter = Delimiters.Comma ->
             IF p <= Len(s) /\ s[p] = 44 THEN 1 + whitespaceRun(s, p + 1) ELSE 0
      [] delimiter = Delimiters.Semicolon ->
             IF p <= Len(s) /\ s[p] = 59 THEN 1 + whitespaceRun(s, p + 1) ELSE 0
      [] delimiter = Delimiters.Space -> whitespaceRun(s, p)

\* delimiterRegex, the alternation of the patterns in the order of the
\* delimiters prop, matched at position p: the first alternative that matches
\* there decides, from alternative k on.
RECURSIVE delimiterRegex(_, _, _)
delimiterRegex(s, p, k) ==
    IF k > Len(delimiters) THEN 0
    ELSE IF DelimiterPatterns(delimiters[k], s, p) > 0
         THEN DelimiterPatterns(delimiters[k], s, p)
         ELSE delimiterRegex(s, p, k + 1)

\* The first position from p on where delimiterRegex matches, 0 when none.
RECURSIVE search(_, _)
search(s, p) ==
    IF p > Len(s) THEN 0
    ELSE IF delimiterRegex(s, p, 1) > 0 THEN p
    ELSE search(s, p + 1)

\* delimiterRegex.test(s) of a regex with the g flag: the search starts at
\* lastIndex, and fails when lastIndex is beyond the string.
test(s) == lastIndex <= Len(s) /\ search(s, lastIndex + 1) > 0

\* lastIndex after delimiterRegex.test(s): the end of the match found, 0 after
\* a failed search.
lastIndexAfterTest(s) ==
    IF test(s)
    THEN search(s, lastIndex + 1) - 1 + delimiterRegex(s, search(s, lastIndex + 1), 1)
    ELSE 0

\* s.split(delimiterRegex): the pieces between the matches, found from the
\* start of s whatever lastIndex is; p is where the current piece starts, q
\* where the next match is looked for.
RECURSIVE split(_, _, _)
split(s, p, q) ==
    IF q > Len(s) THEN <<SubSeq(s, p, Len(s))>>
    ELSE IF delimiterRegex(s, q, 1) = 0 THEN split(s, p, q + 1)
    ELSE <<SubSeq(s, p, q - 1)>>
             \o split(s, q + delimiterRegex(s, q, 1), q + delimiterRegex(s, q, 1))

RECURSIVE trimStart(_)
trimStart(s) ==
    IF s # <<>> /\ isWhitespace(Head(s)) THEN trimStart(Tail(s)) ELSE s

RECURSIVE trimEnd(_)
trimEnd(s) ==
    IF s # <<>> /\ isWhitespace(s[Len(s)])
    THEN trimEnd(SubSeq(s, 1, Len(s) - 1))
    ELSE s

\* String.prototype.trim
trim(s) == trimEnd(trimStart(s))

\* The value of a string of decimal digits.
RECURSIVE decimal(_)
decimal(s) ==
    IF s = <<>> THEN 0 ELSE 10 * decimal(SubSeq(s, 1, Len(s) - 1)) + (s[Len(s)] - 48)

\* isNaN(Number(tag)).  Number() of a string ignores the whitespace around it
\* and takes the empty string as 0; the texts of the model hold letters other
\* than e and x, digits, commas, semicolons and spaces, and of those only the
\* strings of digits are numbers.
isNaN(tag) == \E i \in 1 .. Len(trim(tag)) : trim(tag)[i] < 48 \/ trim(tag)[i] > 57

\* Number(tag) of a tag that is a number.
Number(tag) == Num(decimal(trim(tag)))

\* const parseTag = (tag) => !isNaN(Number(tag)) ? Number(tag) : tag.trim()
parseTag(tag) == IF ~isNaN(tag) THEN Number(tag) ELSE Str(trim(tag))

\* Boolean(p) of a primitive: the empty string and the number 0 are falsy.
Boolean(p) == IF p.isNum THEN p.num # 0 ELSE p.chars # <<>>

\* pieces.map(parseTag).filter(Boolean)
RECURSIVE mapParseTagFilterBoolean(_)
mapParseTagFilterBoolean(pieces) ==
    IF pieces = <<>> THEN <<>>
    ELSE IF Boolean(parseTag(Head(pieces)))
         THEN <<parseTag(Head(pieces))>> \o mapParseTagFilterBoolean(Tail(pieces))
         ELSE mapParseTagFilterBoolean(Tail(pieces))

trimmedValue(value) == trim(value)

\* processInputValue returns before it calls addTags: if (!trimmedValue) return
processInputValueReturnsEarly(value) == trimmedValue(value) = <<>>

\* The regex is tested: delimiters.length && delimiterRegex.test(trimmedValue)
delimiterRegexTested(value) ==
    ~processInputValueReturnsEarly(value) /\ Len(delimiters) > 0

\* The array processInputValue hands to addTags.
processedTags(value) ==
    IF delimiterRegexTested(value) /\ test(trimmedValue(value))
    THEN mapParseTagFilterBoolean(split(trimmedValue(value), 1, 1))
    ELSE <<parseTag(trimmedValue(value))>>

\* lastIndex when processInputValue has run.
lastIndexAfterProcess(value) ==
    IF delimiterRegexTested(value)
    THEN lastIndexAfterTest(trimmedValue(value))
    ELSE lastIndex

---------------------------------------------------------------------------
(* Focus, and the elements a group renders: one tag item per tag of the    *)
(* last render, at key indexes 0 .. tags.length - 1, followed by the text  *)
(* input (the children of TagsInputGroup in every usage the README shows). *)
(* An element is named by its position among these siblings.               *)

\* The sibling position of the text input.
inputElement == Len(tags)

\* previousElementSibling / nextElementSibling of an element that has none.
Null == -1

\* const isInputNonInteractive = disabled || readOnly || isTagNonInteractive,
\* the text input's own disabled and readOnly props at their default (false).
isInputNonInteractive == isTagNonInteractive

\* const isTagDisabled = isTagNonInteractive || disabled
isTagDisabled(keyIndex) == isTagNonInteractive \/ keyIndex \in itemDisabled

\* getAttribute of an attribute the element does not have (null).
NoAttribute == "null"

\* sibling.getAttribute("data-disabled"): a tag item is rendered with
\* data-disabled={isTagDisabled ? "" : undefined}, the text input without it.
getAttributeDataDisabled(sibling) ==
    IF sibling < inputElement /\ isTagDisabled(sibling) THEN "" ELSE NoAttribute

\* const siblingDisabled = sibling.getAttribute("data-disabled") === "true"
siblingDisabled(sibling) == getAttributeDataDisabled(sibling) = "true"

elementSibling(current, direction) ==
    IF direction = "previous"
    THEN (IF current - 1 >= 0 THEN current - 1 ELSE Null)
    ELSE (IF current + 1 <= inputElement THEN current + 1 ELSE Null)

\* The while loop of findFocusableSibling, from a sibling on.
RECURSIVE findFocusableSiblingLoop(_, _)
findFocusableSiblingLoop(sibling, direction) ==
    IF sibling = Null THEN Null
    ELSE IF ~siblingDisabled(sibling) THEN sibling
    ELSE findFocusableSiblingLoop(elementSibling(sibling, direction), direction)

findFocusableSibling(current, direction) ==
    findFocusableSiblingLoop(elementSibling(current, direction), direction)

\* document.activeElement after element.focus().
focusOf(element) == IF element = inputElement THEN TextEntry ELSE Focused(element)

\* Mutant: the handler does not look at where the focus is.
isFocusedAnywhere(keyIndex) == TRUE

\* const isFocused = () => document.activeElement === itemRef.current
isFocused(keyIndex) == focus = Focused(keyIndex)

\* Mutant: the handler does not return for a disabled item.
tagKeyDownReturnsEarlyDisabledIgnored(keyIndex, key, defaultPrevented) ==
    defaultPrevented \/ action(key) = NoAction

\* The returns of handleTagKeyDown before its switch.
tagKeyDownReturnsEarly(keyIndex, key, defaultPrevented) ==
    \/ defaultPrevented
    \/ isTagDisabled(keyIndex)
    \/ action(key) = NoAction

\* The index handleTagKeyDown hands to removeTag, NaN when it makes no call:
\* case TagsInputKeyActions.Remove: if (isFocused()) { removeTag(keyIndex) }
tagKeyDownRemoves(keyIndex, key, defaultPrevented) ==
    /\ ~tagKeyDownReturnsEarly(keyIndex, key, defaultPrevented)
    /\ action(key) = TagsInputKeyActions.Remove
    /\ isFocused(keyIndex)

\* document.activeElement when handleTagKeyDown has run (removeTag, when it
\* removes, focuses the text input).
tagKeyDownFocus(keyIndex, key, defaultPrevented) ==
    IF tagKeyDownReturnsEarly(keyIndex, key, defaultPrevented) THEN focus
    ELSE IF action(key) = TagsInputKeyActions.Remove
         THEN (IF isFocused(keyIndex) THEN removeTagFocus(Whole(keyIndex)) ELSE focus)
    ELSE IF action(key) = TagsInputKeyActions.NavigateLeft
         THEN (IF findFocusableSibling(keyIndex, "previous") # Null
               THEN focusOf(findFocusableSibling(keyIndex, "previous"))
               ELSE focus)
    ELSE IF action(key) = TagsInputKeyActions.NavigateRight
         THEN (IF findFocusableSibling(keyIndex, "next") # Null
               THEN focusOf(findFocusableSibling(keyIndex, "next"))
               ELSE TextEntry)
    ELSE focus

\* handleTagKeyDown calls e.preventDefault(): for Remove on the focused
\* item, and for either navigation.
tagKeyDownPreventsDefault(keyIndex, key, defaultPrevented) ==
    /\ ~tagKeyDownReturnsEarly(keyIndex, key, defaultPrevented)
    /\ \/ action(key) = TagsInputKeyActions.Remove /\ isFocused(keyIndex)
       \/ action(key) = TagsInputKeyActions.NavigateLeft
       \/ action(key) = TagsInputKeyActions.NavigateRight

---------------------------------------------------------------------------
(* The handlers of the text input.                                         *)

\* Mutant: the host's preventDefault is not looked at.
inputKeyDownReturnsEarlyHostIgnored(key, defaultPrevented) == isInputNonInteractive

\* The returns of handleInputKeyDown before it reads the key: the host's
\* onKeyDown prevented the default, or the input is not interactive.
inputKeyDownReturnsEarly(key, defaultPrevented) ==
    defaultPrevented \/ isInputNonInteractive

\* groupRef.current.querySelectorAll('[data-id]:not([data-disabled="true"])'),
\* then Array.from(tags).pop(): the last tag item the selector matches, Null
\* when it matches none.
RECURSIVE lastNonDisabledTagFrom(_)
lastNonDisabledTagFrom(keyIndex) ==
    IF keyIndex < 0 THEN Null
    ELSE IF getAttributeDataDisabled(keyIndex) # "true" THEN keyIndex
    ELSE lastNonDisabledTagFrom(keyIndex - 1)

\* Mutant: the first tag item is taken.
lastNonDisabledTagFirst == IF Len(tags) > 0 THEN 0 ELSE Null

lastNonDisabledTag == lastNonDisabledTagFrom(Len(tags) - 1)

\* handleInputKeyDown calls e.preventDefault() and then
\* processInputValue(inputRef.current.value).
inputKeyDownAdds(key, defaultPrevented) ==
    /\ ~inputKeyDownReturnsEarly(key, defaultPrevented)
    /\ action(key) = TagsInputKeyActions.Add

\* document.activeElement when handleInputKeyDown has run.
inputKeyDownFocus(key, defaultPrevented) ==
    IF /\ ~inputKeyDownReturnsEarly(key, defaultPrevented)
       /\ action(key) = TagsInputKeyActions.Remove
       /\ inputValue = <<>>
       /\ lastNonDisabledTag # Null
    THEN Focused(lastNonDisabledTag)
    ELSE focus

\* inputRef.current.value when handleInputKeyDown has run.
inputKeyDownValue(key, defaultPrevented) ==
    IF inputKeyDownAdds(key, defaultPrevented) THEN <<>> ELSE inputValue

\* The returns of handleInputPaste before it reads the clipboard.
inputPasteReturnsEarly(defaultPrevented) ==
    defaultPrevented \/ isInputNonInteractive

\* Mutant: the paste is let through when nothing is added.
inputPastePreventsDefaultWhenAdded(defaultPrevented) ==
    /\ ~inputPasteReturnsEarly(defaultPrevented)
    /\ ~processInputValueReturnsEarly(clipboardData)
    /\ tagsToAdd(Array(processedTags(clipboardData))) # <<>>

\* handleInputPaste calls e.preventDefault(): after processInputValue, whatever
\* it did.
inputPastePreventsDefault(defaultPrevented) ==
    ~inputPasteReturnsEarly(defaultPrevented)

\* The call of addTags processInputValue(value) makes, NoCall when it returns
\* before.
processInputValueCall(value) ==
    IF processInputValueReturnsEarly(value)
    THEN [op |-> "none", tag |-> NullInput, index |-> NaN, before |-> <<>>]
    ELSE [op |-> "addTags", tag |-> Array(processedTags(value)), index |-> NaN,
          before |-> store]

\* processInputValue(value), and the render that follows a change of the
\* collection: useMemo builds a new regex (lastIndex 0) when the delimiters
\* array is not the one of the render before.
processInputValue(value) ==
    /\ call' = processInputValueCall(value)
    /\ setTags(IF processInputValueReturnsEarly(value)
               THEN <<>>
               ELSE addTagsWrites(Array(processedTags(value))))
    /\ render
    /\ lastIndex' = IF store' # store /\ delimitersFresh
                    THEN 0
                    ELSE lastIndexAfterProcess(value)

\* A handler that returns without a call to the controller.
noCall ==
    /\ call' = [op |-> "none", tag |-> NullInput, index |-> NaN, before |-> <<>>]
    /\ setTags(<<>>)
    /\ render

---------------------------------------------------------------------------
(* The elements that read the controller (useTagsInput) or the group       *)
(* (useTagsInputGroup) from context.                                       *)

Elements == {"TagsInputItem", "TagsInputItemText", "TagsInputItemDelete", "TagsInputInput"}

\* The context hooks an element calls when it renders, in the order it calls
\* them.
hooks(element) ==
    CASE element = "TagsInputItem" -> <<"useTagsInput", "useTagsInputGroup">>
      [] element = "TagsInputItemText" -> <<"useTagsInputGroup">>
      [] element = "TagsInputItemDelete" -> <<"useTagsInput", "useTagsInputGroup">>
      [] element = "TagsInputInput" -> <<"useTagsInput", "useTagsInputGroup">>

\* if (!context) throw new Error(...) of useTagsInput
useTagsInput(provider) ==
    IF provider THEN ""
    ELSE "The useTagsInput hook must be used within a TagsInputProvider."

\* if (!context) throw new Error(...) of useTagsInputGroup
useTagsInputGroup(group) ==
    IF group THEN ""
    ELSE "The useTagsInputGroup hook must be used within a TagsInputGroupProvider"

\* The message of the error the render of an element throws, "" when it
\* renders: the first of its hooks that finds no context throws.
RECURSIVE thrown(_, _, _, _)
thrown(element, provider, group, k) ==
    IF k > Len(hooks(element)) THEN ""
    ELSE LET message == IF hooks(element)[k] = "useTagsInput"
                        THEN useTagsInput(provider)
                        ELSE useTagsInputGroup(group)
         IN  IF message # "" THEN message
             ELSE thrown(element, provider, group, k + 1)

---------------------------------------------------------------------------
(* Events.                                                                 *)

\* No event was handled yet.
NoEvent ==
    [type |-> "none", key |-> "", defaultPrevented |-> FALSE, action |-> "",
     text |-> <<>>,
     store |-> <<>>, inputValue |-> <<>>, focus |-> Body,
     element |-> "", provider |-> TRUE, group |-> TRUE, thrown |-> "",
     preventDefault |-> FALSE, position |-> Null, keyIndex |-> Null]

\* An event of the user, with the state it finds.
UserEvent(type) ==
    [NoEvent EXCEPT !.type = type, !.store = store, !.inputValue = inputValue,
                    !.focus = focus]

\* A keydown event on the focused element; defaultPrevented is its flag when
\* the host's onKeyDown has run, resolved the action the handler reads from
\* keyBindings ("" when it returns before).
KeyDown(key, defaultPrevented, resolved) ==
    [UserEvent("keydown") EXCEPT !.key = key, !.defaultPrevented = defaultPrevented,
                                 !.action = resolved]

\* A paste event on the text input; e.clipboardData.getData("text") is text.
Paste(text, defaultPrevented) ==
    [UserEvent("paste") EXCEPT !.text = text, !.defaultPrevented = defaultPrevented]

\* The render of an element with or without a controller (provider) and a
\* group around it.
Mounted(element, provider, group) ==
    [UserEvent("mount") EXCEPT !.element = element, !.provider = provider,
                               !.group = group,
                               !.thrown = thrown(element, provider, group, 1)]

---------------------------------------------------------------------------
(* Actions.                                                                *)

NoCall == [op |-> "none", tag |-> NullInput, index |-> NaN, before |-> <<>>]

\* The elements inside the controller before any event: default props, an
\* empty text input that holds the focus.
uiAtRest ==
    /\ keyboardCommands = defaultKeyBindings
    /\ delimiters = <<Delimiters.Comma>>
    /\ delimitersFresh = TRUE
    /\ lastIndex = 0
    /\ inputValue = <<>>
    /\ clipboardData = <<>>
    /\ focus = TextEntry
    /\ itemDisabled = {}
    /\ event = NoEvent

\* No controlled controller runs beside this one.
pairUnused == valueProp = <<>> /\ valuePropOnChange = <<>>

\* The props and the initial collection.  caseSensitiveDuplicates is read only
\* to decide duplicates, so it is varied only where duplicates are disallowed.
TagsInputInit ==
    /\ maxTags \in {Undefined} \cup (0 .. MaxMaxTags)
    /\ minTags \in {Undefined} \cup (1 .. MaxMinTags)
    /\ allowDuplicates \in BOOLEAN
    /\ caseSensitiveDuplicates \in (IF allowDuplicates THEN {FALSE} ELSE BOOLEAN)
    /\ disabled \in BOOLEAN
    /\ readOnly \in BOOLEAN
    /\ parseInput \in BOOLEAN
    /\ store \in InitialCollections
    /\ tags = store
    /\ call = NoCall
    /\ onChange = <<>>
    /\ writes = 0

Init == TagsInputInit /\ uiAtRest /\ pairUnused

\* A descendant calls addTags(tag); React then re-renders.
addTags(tag) ==
    /\ Len(store) + Len(tagsToAdd(tag)) <= MaxLen
    /\ call' = [op |-> "addTags", tag |-> tag, index |-> NaN, before |-> store]
    /\ setTags(addTagsWrites(tag))
    /\ render
    /\ UNCHANGED <<config, ui, pair>>

AddTags == \E tag \in Inputs : addTags(tag)

\* A descendant calls removeTag(index); React then re-renders.
RemoveTag ==
    \E index \in Indexes :
        /\ call' = [op |-> "removeTag", tag |-> NullInput, index |-> index,
                    before |-> store]
        /\ setTags(removeTagWrites(index))
        /\ render
        /\ focus' = removeTagFocus(index)
        /\ UNCHANGED <<config, host, lastIndex, inputValue, event, pair>>

Next == AddTags \/ RemoveTag

Spec == Init /\ [][Next]_vars

---------------------------------------------------------------------------
(* The events of the elements inside the controller.  A keydown event goes *)
(* to the element that has the focus; React renders again when the event   *)
(* has changed the collection.                                             *)

\* The tag the text input adds for a piece of one letter.
Letter(c) == PrimitiveTag(Str(<<c>>))

\* The tags "a", "b", "c".
ABC == <<Letter(97), Letter(98), Letter(99)>>

\* handleTagKeyDown of the focused tag item, for a key and for what the
\* host's onKeyDown did to the event.  A key that goes down on the delete
\* button inside a tag item bubbles to the same handler of that item.
TagKeyDown(key, defaultPrevented) ==
    /\ focus.at \in {"tag", "delete"}
    /\ event' = [KeyDown(key, defaultPrevented,
                         IF defaultPrevented \/ isTagDisabled(focus.keyIndex)
                         THEN "" ELSE action(key))
                    EXCEPT !.preventDefault =
                        tagKeyDownPreventsDefault(focus.keyIndex, key, defaultPrevented)]
    /\ IF tagKeyDownRemoves(focus.keyIndex, key, defaultPrevented)
       THEN /\ call' = [op |-> "removeTag", tag |-> NullInput,
                        index |-> Whole(focus.keyIndex), before |-> store]
            /\ setTags(removeTagWrites(Whole(focus.keyIndex)))
            /\ render
       ELSE noCall
    /\ focus' = tagKeyDownFocus(focus.keyIndex, key, defaultPrevented)
    /\ lastIndex' = IF store' # store /\ delimitersFresh THEN 0 ELSE lastIndex
    /\ UNCHANGED <<config, host, inputValue, pair>>

\* handleInputKeyDown of the focused text input.
InputKeyDown(key, defaultPrevented) ==
    /\ focus = TextEntry
    /\ event' = [KeyDown(key, defaultPrevented,
                         IF inputKeyDownReturnsEarly(key, defaultPrevented)
                         THEN "" ELSE action(key))
                    EXCEPT !.preventDefault = inputKeyDownAdds(key, defaultPrevented)]
    /\ IF inputKeyDownAdds(key, defaultPrevented)
       THEN /\ Len(store) + Len(tagsToAdd(Array(processedTags(inputValue)))) <= MaxLen
            /\ processInputValue(inputValue)
       ELSE noCall /\ lastIndex' = lastIndex
    /\ inputValue' = inputKeyDownValue(key, defaultPrevented)
    /\ focus' = inputKeyDownFocus(key, defaultPrevented)
    /\ UNCHANGED <<config, host, pair>>

\* handleInputPaste of the focused text input.
InputPaste(defaultPrevented) ==
    /\ focus = TextEntry
    /\ event' = [Paste(clipboardData, defaultPrevented)
                    EXCEPT !.preventDefault = inputPastePreventsDefault(defaultPrevented)]
    /\ IF inputPasteReturnsEarly(defaultPrevented)
       THEN noCall /\ lastIndex' = lastIndex
       ELSE /\ Len(store) + Len(tagsToAdd(Array(processedTags(clipboardData)))) <= MaxLen
            /\ processInputValue(clipboardData)
    /\ UNCHANGED <<config, host, inputValue, focus, pair>>

\* The user replaces the text of the focused text input.
Type(text) ==
    /\ focus = TextEntry
    /\ ~isInputNonInteractive
    /\ event' = UserEvent("input")
    /\ inputValue' = text
    /\ noCall
    /\ UNCHANGED <<config, host, lastIndex, focus, pair>>

\* The user clicks a tag item or the text input (a disabled input takes no
\* focus).
Click(element) ==
    /\ element = inputElement => ~isInputNonInteractive
    /\ focus # focusOf(element)
    /\ event' = UserEvent("focus")
    /\ focus' = focusOf(element)
    /\ noCall
    /\ UNCHANGED <<config, host, lastIndex, inputValue, pair>>

\* Tab on a tag item: the focus goes to the TagsInputItemDelete button inside
\* it (a button of a non-interactive controller is disabled and skipped).
Tab ==
    /\ focus.at = "tag"
    /\ ~isTagNonInteractive
    /\ event' = UserEvent("focus")
    /\ focus' = Inside(focus.keyIndex)
    /\ noCall
    /\ UNCHANGED <<config, host, lastIndex, inputValue, pair>>

\* handleRemove of a TagsInputItemDelete button: the user clicks the button
\* of a tag item, or presses Enter or Space on it (a disabled button takes no
\* click).
handleRemove(keyIndex) ==
    /\ ~isTagNonInteractive
    /\ event' = UserEvent("click")
    /\ call' = [op |-> "removeTag", tag |-> NullInput, index |-> Whole(keyIndex),
                before |-> store]
    /\ setTags(removeTagWrites(Whole(keyIndex)))
    /\ render
    /\ focus' = removeTagFocus(Whole(keyIndex))
    /\ lastIndex' = IF store' # store /\ delimitersFresh THEN 0 ELSE lastIndex
    /\ UNCHANGED <<config, host, inputValue, pair>>

\* The host renders an element; without the context it reads, the render
\* throws.
Mount(element, provider, group) ==
    /\ event' = Mounted(element, provider, group)
    /\ noCall
    /\ UNCHANGED <<config, host, lastIndex, inputValue, focus, pair>>

---------------------------------------------------------------------------
(* The text input alone: the parser applied to the clipboard text and to   *)
(* typed text, again and again on the same input.                          *)

\* The characters of the raw texts: a letter, a digit, the comma, the space.
Alphabet == {97, 48, 44, 32}

\* The raw texts: every text of the alphabet up to MaxText characters, the
\* text of the trimming scenario ("red, blue ,green"), and texts with a
\* semicolon ("a;0", "0; a").
RawTexts ==
    SeqsUpTo(Alphabet, MaxText)
        \cup {<<114, 101, 100, 44, 32, 98, 108, 117, 101, 32, 44, 103, 114, 101, 101, 110>>,
              <<97, 59, 48>>, <<48, 59, 32, 97>>}

\* The text the user types: "a,a".
TypedTexts == {<<97, 44, 97>>}

\* The delimiters props: none, the default, and lists of two in either order
\* of the alternation.
DelimiterLists ==
    {<<>>, <<Delimiters.Comma>>, <<Delimiters.Comma, Delimiters.Semicolon>>,
     <<Delimiters.Space, Delimiters.Comma>>}

\* A controller with room for one more tag, and a text input with any of the
\* delimiter lists; the clipboard holds any of the raw texts.
ParserInit ==
    /\ maxTags = Len(ABC) - 1
    /\ minTags = Undefined
    /\ allowDuplicates = FALSE
    /\ caseSensitiveDuplicates = FALSE
    /\ disabled = FALSE
    /\ readOnly = FALSE
    /\ parseInput = FALSE
    /\ store = <<Letter(97)>>
    /\ tags = store
    /\ call = NoCall
    /\ onChange = <<>>
    /\ writes = 0
    /\ keyboardCommands = defaultKeyBindings
    /\ delimiters \in DelimiterLists
    /\ delimitersFresh \in BOOLEAN
    /\ lastIndex = 0
    /\ inputValue = <<>>
    /\ clipboardData \in RawTexts
    /\ focus = TextEntry
    /\ itemDisabled = {}
    /\ event = NoEvent
    /\ pairUnused

\* The user pastes the clipboard text, presses Enter, or types; the host has
\* no onPaste or onKeyDown of its own.
ParserNext ==
    \/ InputPaste(FALSE)
    \/ InputKeyDown("Enter", FALSE)
    \/ \E text \in TypedTexts : Type(text)

ParserSpec == ParserInit /\ [][ParserNext]_vars

---------------------------------------------------------------------------
(* The controller with its elements: tag items, some of them disabled, and *)
(* the text input, under the keyboard.                                     *)

\* The disabled props of the tag items, by key index: none disabled, the
\* second, the first two, the second and third.
ItemDisabledSets == {{}, {1}, {0, 1}, {1, 2}}

\* The controller with the tags "a", "b", "c", the clipboard holding "a".
UiInit ==
    /\ maxTags = Undefined
    /\ minTags = Undefined
    /\ allowDuplicates = FALSE
    /\ caseSensitiveDuplicates = FALSE
    /\ disabled \in BOOLEAN
    /\ readOnly = FALSE
    /\ parseInput = FALSE
    /\ store = ABC
    /\ tags = store
    /\ call = NoCall
    /\ onChange = <<>>
    /\ writes = 0
    /\ keyboardCommands \in KeyboardCommands
    /\ delimiters = <<Delimiters.Comma>>
    /\ delimitersFresh = TRUE
    /\ lastIndex = 0
    /\ inputValue = <<>>
    /\ clipboardData = <<97>>
    /\ focus = TextEntry
    /\ itemDisabled \in ItemDisabledSets
    /\ event = NoEvent
    /\ pairUnused

\* A key goes down on the focused tag item or on the focused text input, or
\* the user pastes; the host's handler, if any, has or has not prevented the
\* default.  The user types, or clicks an element.
UiNext ==
    \/ \E key \in Keys, defaultPrevented \in BOOLEAN : TagKeyDown(key, defaultPrevented)
    \/ \E key \in Keys, defaultPrevented \in BOOLEAN : InputKeyDown(key, defaultPrevented)
    \/ \E defaultPrevented \in BOOLEAN : InputPaste(defaultPrevented)
    \/ \E text \in TypedTexts : Type(text)
    \/ \E element \in 0 .. inputElement : Click(element)

UiSpec == UiInit /\ [][UiNext]_vars

---------------------------------------------------------------------------
(* The controller with tag items that hold a TagsInputItemDelete button,   *)
(* as in the README's usage: the keys and clicks of UiSpec, Tab from a tag *)
(* item to its button, and the click of a button.                          *)

ItemSpec ==
    UiInit /\ [][\/ UiNext
                 \/ Tab
                 \/ \E keyIndex \in 0 .. Len(tags) - 1 : handleRemove(keyIndex)]_vars

---------------------------------------------------------------------------
(* The render of the elements, with and without the contexts they read.    *)

\* A controller with any of the initial collections, the focus on the text
\* input or on the body.
MountInit ==
    /\ maxTags = Undefined
    /\ minTags = Undefined
    /\ allowDuplicates = FALSE
    /\ caseSensitiveDuplicates = FALSE
    /\ disabled \in BOOLEAN
    /\ readOnly = FALSE
    /\ parseInput = FALSE
    /\ store \in InitialCollections
    /\ tags = store
    /\ call = NoCall
    /\ onChange = <<>>
    /\ writes = 0
    /\ keyboardCommands = defaultKeyBindings
    /\ delimiters = <<Delimiters.Comma>>
    /\ delimitersFresh = TRUE
    /\ lastIndex = 0
    /\ inputValue = <<>>
    /\ clipboardData = <<>>
    /\ focus \in {TextEntry, Body}
    /\ itemDisabled = {}
    /\ event = NoEvent
    /\ pairUnused

\* The host renders one of the elements, inside or outside a TagsInput, inside
\* or outside a TagsInputGroup.
MountElement == \E element \in Elements, provider \in BOOLEAN, group \in BOOLEAN :
                    Mount(element, provider, group)

MountSpec == MountInit /\ [][MountElement]_vars

---------------------------------------------------------------------------
(* Two controllers side by side, given the same props, the same initial    *)
(* collection and the same calls: one uncontrolled (defaultValue; store is *)
(* its container's local state), one controlled (value and onChange;       *)
(* valueProp is what its owner holds).  Both render after every call, so   *)
(* the closures of both have captured the same collection while the two    *)
(* collections agree.                                                      *)

PairInit ==
    /\ TagsInputInit
    /\ uiAtRest
    /\ valueProp = store
    /\ valuePropOnChange = <<>>

PairAddTags ==
    \E tag \in Inputs :
        /\ valueProp = tags
        /\ Len(store) + Len(tagsToAdd(tag)) <= MaxLen
        /\ call' = [op |-> "addTags", tag |-> tag, index |-> NaN, before |-> store]
        /\ setTags(addTagsWrites(tag))
        /\ render
        /\ setValueProp(controlledAddTagsWrites(tag))
        /\ UNCHANGED <<config, ui>>

PairRemoveTag ==
    \E index \in Indexes :
        /\ valueProp = tags
        /\ call' = [op |-> "removeTag", tag |-> NullInput, index |-> index,
                    before |-> store]
        /\ setTags(removeTagWrites(index))
        /\ render
        /\ setValueProp(removeTagWrites(index))
        /\ focus' = removeTagFocus(index)
        /\ UNCHANGED <<config, host, lastIndex, inputValue, event>>

PairNext == PairAddTags \/ PairRemoveTag

PairSpec == PairInit /\ [][PairNext]_vars

---------------------------------------------------------------------------
(* The controller handed candidates without content.                       *)

\* null or undefined, the empty list, the empty string, and lists that hold
\* the empty string.
EmptyInputs ==
    {NullInput, Array(<<>>), Single(Str(<<>>)), Array(<<Str(<<>>)>>),
     Array(<<Str(<<>>), Str(<<>>)>>)}

EmptySpec == Init /\ [][(\E tag \in EmptyInputs : addTags(tag)) \/ RemoveTag]_vars

---------------------------------------------------------------------------
(* The calls of one event handler of the host.  addTags and removeTag are  *)
(* useCallback closures over the tags of the last render; React renders    *)
(* again only when the handler has returned, so a handler that makes a     *)
(* second call makes it through the same closures.                         *)

\* A handler of the host calls addTags(tag); no render yet.
HandlerAddTags ==
    \E tag \in Inputs :
        /\ Len(store) + Len(tagsToAdd(tag)) <= MaxLen
        /\ call' = [op |-> "addTags", tag |-> tag, index |-> NaN, before |-> store]
        /\ setTags(addTagsWrites(tag))
        /\ UNCHANGED <<tags, config, ui, pair>>

\* A handler of the host calls removeTag(index); no render yet.
HandlerRemoveTag ==
    \E index \in Indexes :
        /\ call' = [op |-> "removeTag", tag |-> NullInput, index |-> index,
                    before |-> store]
        /\ setTags(removeTagWrites(index))
        /\ focus' = removeTagFocus(index)
        /\ UNCHANGED <<tags, config, host, lastIndex, inputValue, event, pair>>

\* The handler has returned and React renders with the collection the
\* container holds: const tags = _tags ?? [].
Render ==
    /\ tags # store
    /\ tags' = store
    /\ UNCHANGED <<config, store, call, onChange, writes, ui, pair>>

\* An interactive controller without parseInput and without minTags, with
\* any of the initial collections.
HandlerInit ==
    /\ maxTags \in {Undefined} \cup (1 .. MaxMaxTags)
    /\ minTags = Undefined
    /\ allowDuplicates \in BOOLEAN
    /\ caseSensitiveDuplicates \in (IF allowDuplicates THEN {FALSE} ELSE BOOLEAN)
    /\ disabled = FALSE
    /\ readOnly = FALSE
    /\ parseInput = FALSE
    /\ store \in InitialCollections
    /\ tags = store
    /\ call = NoCall
    /\ onChange = <<>>
    /\ writes = 0
    /\ uiAtRest
    /\ pairUnused

HandlerSpec ==
    HandlerInit /\ [][HandlerAddTags \/ HandlerRemoveTag \/ Render]_vars

---------------------------------------------------------------------------
(* The group with children of the host's before its tag items.             *)
(* TagsInputGroup hands each child the index React.Children.map gives it,  *)
(* which counts every child of the group: elements, text and empty nodes   *)
(* (null, false) alike.                                                    *)

\* The children a host puts before the tag items: none (the README's usage),
\* an element (a label, an icon), a text, an empty node of a condition that
\* is off.
GroupChildren == {<<>>, <<"element">>, <<"text">>, <<"null">>, <<"element", "null">>}

\* keyIndex: index, for the tag item rendered from tags[position] after the
\* children.
keyIndex(children, position) == Len(children) + position

\* A remove gesture on the tag item at a position: Delete on the focused item
\* (handleTagKeyDown, the key bound to Remove, no onKeyDown of the host) or a
\* click of its delete button (handleRemove); both call removeTag(keyIndex).
RemoveGesture(type, children, position) ==
    /\ ~isTagNonInteractive
    /\ type = "keydown" => focus = Focused(position)
    /\ event' = [UserEvent(type) EXCEPT
                    !.key = IF type = "keydown" THEN "Delete" ELSE "",
                    !.preventDefault = (type = "keydown"),
                    !.position = position,
                    !.keyIndex = keyIndex(children, position)]
    /\ call' = [op |-> "removeTag", tag |-> NullInput,
                index |-> Whole(keyIndex(children, position)), before |-> store]
    /\ setTags(removeTagWrites(Whole(keyIndex(children, position))))
    /\ render
    /\ focus' = removeTagFocus(Whole(keyIndex(children, position)))
    /\ lastIndex' = IF store' # store /\ delimitersFresh THEN 0 ELSE lastIndex
    /\ UNCHANGED <<config, host, inputValue, pair>>

GroupSpec ==
    HandlerInit
        /\ [][\/ \E type \in {"keydown", "click"}, children \in GroupChildren,
                     position \in 0 .. Len(tags) - 1 :
                       RemoveGesture(type, children, position)
              \/ \E element \in 0 .. inputElement : Click(element)]_vars

---------------------------------------------------------------------------
(* What the last call did, read off the state.                             *)

\* The controller is disabled or read-only.
NonInteractive == disabled \/ readOnly

IsAdd == call.op = "addTags"
IsRemove == call.op = "removeTag"

\* The last call changed nothing observable.
NothingObservable ==
    /\ store = call.before
    /\ onChange = <<>>
    /\ writes = 0

\* The tags the last call appended to the collection it found.
Added ==
    IF Len(store) > Len(call.before)
    THEN SubSeq(store, Len(call.before) + 1, Len(store))
    ELSE <<>>

\* The candidates of the last addTags call, as the tags they stand for.
Candidates == [i \in 1 .. Len(call.tag.items) |-> parsedTag(call.tag.items[i])]

\* No rule other than the one a claim is about stops the last addTags call:
\* the controller is interactive and the minTags floor is not above the
\* collection the call found.
MinTagsLetsThrough == ~(Truthy(minTags) /\ Len(call.before) < minTags)

Min(a, b) == IF a <= b THEN a ELSE b

---------------------------------------------------------------------------
(* C1: when maxTags is set and the collection has at most maxTags          *)
(* elements, no addTags or removeTag call makes it longer than maxTags     *)
(* (so from an initial collection within the ceiling, the ceiling holds    *)
(* after every sequence of calls).                                         *)
C1_LengthNeverExceedsMaxTags ==
    [][(maxTags # Undefined /\ Len(store) <= maxTags) => Len(store') <= maxTags]_vars

(* C2: an addTags call either changes nothing observable (no collection    *)
(* change, no notification) or performs exactly one collection replacement *)
(* and exactly one change notification, which carries the full next        *)
(* collection.                                                             *)
C2_AddTagsOneWriteOneNotification ==
    IsAdd =>
        \/ NothingObservable
        \/ /\ writes = 1
           /\ onChange = <<store>>
           /\ store # call.before

\* A batch of two candidates was accepted whole, with one notification.
C2_Witness ==
    /\ IsAdd
    /\ Len(call.tag.items) = 2
    /\ Len(store) = Len(call.before) + 2
    /\ onChange = <<store>>

(* C3: with allowDuplicates = false, a candidate whose normalized form is  *)
(* that of an existing tag, or of a candidate accepted earlier in the same *)
(* batch, is dropped: the tags one addTags call appends have pairwise      *)
(* distinct normalized forms, none of them the form of an existing tag, so *)
(* two candidates that normalize identically yield at most one new tag.    *)
C3_DuplicateCandidatesDropped ==
    (IsAdd /\ ~allowDuplicates) =>
        /\ \A i, j \in 1 .. Len(Added) :
               i < j => normalizeTag(Added[i], caseSensitiveDuplicates)
                          # normalizeTag(Added[j], caseSensitiveDuplicates)
        /\ \A i \in 1 .. Len(Added) : \A k \in 1 .. Len(call.before) :
               normalizeTag(Added[i], caseSensitiveDuplicates)
                 # normalizeTag(call.before[k], caseSensitiveDuplicates)
        /\ \A i, j \in 1 .. Len(Candidates) :
               (i < j /\ normalizeTag(Candidates[i], caseSensitiveDuplicates)
                           = normalizeTag(Candidates[j], caseSensitiveDuplicates))
               => Cardinality({a \in 1 .. Len(Added) :
                      normalizeTag(Added[a], caseSensitiveDuplicates)
                        = normalizeTag(Candidates[i], caseSensitiveDuplicates)}) <= 1

\* A batch of two candidates that normalize identically added exactly one tag.
C3_Witness ==
    /\ IsAdd
    /\ ~allowDuplicates
    /\ ~caseSensitiveDuplicates
    /\ call.tag = Array(<<Str(Red), Str(red)>>)
    /\ Len(Added) = 1

(* C4: with duplicates disallowed, an addTags call whose every candidate   *)
(* is a value already present in the collection changes nothing: the       *)
(* length stays the same and no notification is issued, in every reachable *)
(* state, hence however often the call is repeated.                        *)
C4_RejectionIdempotent ==
    (/\ IsAdd
     /\ ~allowDuplicates
     /\ Len(call.tag.items) >= 1
     /\ \A i \in 1 .. Len(call.tag.items) :
            \E k \in 1 .. Len(call.before) :
                call.before[k].value = call.tag.items[i])
    => (Len(store) = Len(call.before) /\ NothingObservable)

\* An interactive controller below its ceiling was handed a value it holds.
C4_Witness ==
    /\ IsAdd
    /\ ~allowDuplicates
    /\ ~NonInteractive
    /\ maxTags = Undefined
    /\ minTags = Undefined
    /\ call.tag = Single(Str(Red))
    /\ \E k \in 1 .. Len(call.before) : call.before[k].value = Str(Red)
    /\ Len(store) = Len(call.before)

\* index is outside [0, len) or is not a whole number.
OutsideRange(index, len) ==
    \/ index.kind = "nan"
    \/ index.kind = "half"
    \/ (index.kind = "whole" /\ (index.n < 0 \/ index.n >= len))

(* C5: removeTag(i) with i negative, i >= length, or i not a whole number  *)
(* (NaN included) leaves the collection unchanged and issues no change     *)
(* notification.                                                           *)
C5_RemoveOutOfRangeNoOp ==
    (IsRemove /\ OutsideRange(call.index, Len(call.before))) => NothingObservable

\* An interactive controller holding tags was handed a fraction inside the range.
C5_Witness ==
    /\ IsRemove
    /\ ~NonInteractive
    /\ call.index = Half(0)
    /\ Len(call.before) >= 2
    /\ store = call.before

(* C6: on an interactive controller, removeTag(k) with a valid index k     *)
(* yields a collection one shorter, in which every tag formerly before k   *)
(* keeps its position and every tag formerly after k moves down by one.    *)
C6_RemoveShiftsLaterTagsDown ==
    (/\ IsRemove
     /\ ~NonInteractive
     /\ ~OutsideRange(call.index, Len(call.before)))
    => /\ Len(store) = Len(call.before) - 1
       /\ \A p \in 0 .. Len(call.before) - 1 :
              /\ p < call.index.n => store[p + 1] = call.before[p + 1]
              /\ p > call.index.n => store[p] = call.before[p + 1]

\* The middle tag of three different tags was removed.
C6_Witness ==
    /\ IsRemove
    /\ ~NonInteractive
    /\ call.index = Whole(1)
    /\ Len(call.before) = 3
    /\ call.before[1] # call.before[2]
    /\ call.before[2] # call.before[3]
    /\ Len(store) = 2

(* C7: with duplicates allowed, maxTags = m and a collection of length    *)
(* n < m, addTags of k candidates yields exactly the previous collection   *)
(* followed by the first min(k, m - n) candidates in batch order; the rest *)
(* is discarded.  (The controller is interactive and minTags does not      *)
(* reject the call, as in the scenario.)                                   *)
C7_BatchTruncatedAtMaxTags ==
    (/\ IsAdd
     /\ allowDuplicates
     /\ maxTags # Undefined
     /\ Len(call.before) < maxTags
     /\ ~NonInteractive
     /\ MinTagsLetsThrough)
    => store = call.before
                 \o SubSeq(Candidates, 1,
                           Min(Len(Candidates), maxTags - Len(call.before)))

\* maxTags = 2, empty collection, a batch of three: exactly the first two.
C7_Witness ==
    /\ IsAdd
    /\ allowDuplicates
    /\ maxTags = 2
    /\ call.before = <<>>
    /\ call.tag = Array(ScenarioBatch)
    /\ store = <<parsedTag(ScenarioBatch[1]), parsedTag(ScenarioBatch[2])>>

(* C8: while the controller is non-interactive (disabled or readOnly),     *)
(* every addTags and every removeTag call leaves the collection unchanged  *)
(* and issues no change notification.                                      *)
C8_NonInteractiveNoOp ==
    (NonInteractive /\ (IsAdd \/ IsRemove)) => NothingObservable

\* A read-only controller with no other constraint was handed a new batch.
C8_Witness ==
    /\ IsAdd
    /\ readOnly
    /\ ~disabled
    /\ allowDuplicates
    /\ maxTags = Undefined
    /\ minTags = Undefined
    /\ Len(call.tag.items) = 2
    /\ store = call.before

\* Two primitives that differ in letter case only.
DiffersOnlyInCase(a, b) ==
    /\ String(a) # String(b)
    /\ toLowerCase(String(a)) = toLowerCase(String(b))

(* C9: with duplicates disallowed and caseSensitiveDuplicates = false,     *)
(* adding a value that differs from an existing tag in letter case only is *)
(* a no-op; with caseSensitiveDuplicates = true the same value, held by no *)
(* tag exactly, is appended as a tag of its own (the controller being      *)
(* interactive, below maxTags and not below minTags).                      *)
C9_CasePolicyDecidesDuplicate ==
    (/\ IsAdd
     /\ ~allowDuplicates
     /\ call.tag.kind = "single"
     /\ \E k \in 1 .. Len(call.before) :
            DiffersOnlyInCase(call.before[k].value, call.tag.items[1]))
    => /\ ~caseSensitiveDuplicates => NothingObservable
       /\ (/\ caseSensitiveDuplicates
           /\ \A k \in 1 .. Len(call.before) :
                  String(call.before[k].value) # String(call.tag.items[1])
           /\ ~NonInteractive
           /\ ~(Truthy(maxTags) /\ Len(call.before) >= maxTags)
           /\ MinTagsLetsThrough)
          => store = Append(call.before, parsedTag(call.tag.items[1]))

\* Existing tag "Red", addTags("red"), case-insensitive: nothing happened.
C9_Witness ==
    /\ IsAdd
    /\ ~allowDuplicates
    /\ ~caseSensitiveDuplicates
    /\ ~NonInteractive
    /\ maxTags = Undefined
    /\ minTags = Undefined
    /\ call.before = <<PrimitiveTag(Str(Red))>>
    /\ call.tag = Single(Str(red))
    /\ store = call.before

(* C10: duplicate comparison uses only the value (the value field of a     *)
(* structured tag, the primitive itself otherwise), stringified: with      *)
(* duplicates disallowed addTags never appends a tag whose stringified     *)
(* value is that of an existing tag or of another tag appended by the same *)
(* call, whatever the other fields of either tag and whether either is     *)
(* structured or primitive.                                                *)
C10_IdentityIsStringifiedValue ==
    (IsAdd /\ ~allowDuplicates) =>
        /\ \A i \in 1 .. Len(Added) : \A k \in 1 .. Len(call.before) :
               String(Added[i].value) # String(call.before[k].value)
        /\ \A i, j \in 1 .. Len(Added) :
               i < j => String(Added[i].value) # String(Added[j].value)

\* A structured candidate met a structured tag with the same value and another
\* label, a second one met a primitive tag with its value: neither was added.
C10_Witness ==
    /\ IsAdd
    /\ ~allowDuplicates
    /\ parseInput
    /\ ~NonInteractive
    /\ maxTags = Undefined
    /\ minTags = Undefined
    /\ call.before = <<ObjectTag(Num(1), 2), PrimitiveTag(Str(red))>>
    /\ call.tag = Array(<<Num(1), Str(red)>>)
    /\ Candidates[1] # call.before[1]
    /\ store = call.before

---------------------------------------------------------------------------
(* What the last event of the text input did, read off the state.          *)

\* The last event had the text input parse a raw text: a paste, or the Enter
\* key under the default bindings, on an interactive controller with no host
\* handler in the way.
Parsed ==
    /\ ~NonInteractive
    /\ ~event.defaultPrevented
    /\ event.focus = TextEntry
    /\ \/ event.type = "paste"
       \/ event.type = "keydown" /\ event.key = "Enter"
                                 /\ keyboardCommands = defaultKeyBindings

\* The raw text the last event had parsed.
ParsedText == IF event.type = "paste" THEN event.text ELSE event.inputValue

\* The candidates the parser handed to addTags.
ParserOutput == call.tag.items

\* The pieces, each trimmed, without the empty ones.
RECURSIVE NonEmptyTrimmed(_)
NonEmptyTrimmed(pieces) ==
    IF pieces = <<>> THEN <<>>
    ELSE IF trim(Head(pieces)) = <<>> THEN NonEmptyTrimmed(Tail(pieces))
    ELSE <<trim(Head(pieces))>> \o NonEmptyTrimmed(Tail(pieces))

\* A delimiter matches somewhere in the text.
DelimiterMatches(text) == Len(delimiters) > 0 /\ search(text, 1) > 0

\* The candidates the parser is to give for a raw text that is not blank.
TrimmedPieces(text) ==
    IF DelimiterMatches(trim(text))
    THEN NonEmptyTrimmed(split(trim(text), 1, 1))
    ELSE <<trim(text)>>

\* A candidate is a piece: the piece as text, or the number it reads as when
\* pieces that parse as numbers are coerced.
IsPiece(candidate, piece) ==
    \/ candidate = Str(piece)
    \/ ~isNaN(piece) /\ candidate = Number(piece)

(* C11: the parser's output is exactly the sequence, in order, of the      *)
(* non-empty trimmed pieces of the trimmed text split on the delimiters    *)
(* (a piece that reads as a number may come as that number); when no       *)
(* delimiter matches it is the single trimmed text; a blank text gives no  *)
(* candidates and no add.                                                  *)
C11_ParserYieldsTrimmedPieces ==
    Parsed =>
        IF trim(ParsedText) = <<>>
        THEN call.op = "none" /\ store = event.store /\ onChange = <<>>
        ELSE /\ call.op = "addTags"
             /\ Len(ParserOutput) = Len(TrimmedPieces(ParsedText))
             /\ \A i \in 1 .. Len(ParserOutput) :
                    IsPiece(ParserOutput[i], TrimmedPieces(ParsedText)[i])

\* The candidates a text input that has parsed nothing before gives for a raw
\* text that is not blank.
FirstParse(text) ==
    IF DelimiterMatches(trim(text))
    THEN mapParseTagFilterBoolean(split(trim(text), 1, 1))
    ELSE <<parseTag(trim(text))>>

(* C12: the parser is pure: the candidates it gives for a raw text are     *)
(* those it gives for that text on its first call, whatever it parsed      *)
(* before and whatever the collection and the focus are.                   *)
C12_ParserIsPure ==
    (Parsed /\ trim(ParsedText) # <<>>) =>
        /\ call.op = "addTags"
        /\ ParserOutput = FirstParse(ParsedText)

(* C13: with minTags set, an addTags call (a value, on an interactive      *)
(* controller) is rejected as a whole, with no notification, if the length *)
(* of the collection with the accepted candidates appended would still be  *)
(* below minTags, and is committed (the accepted candidates appended, one  *)
(* notification) when that length reaches minTags or more.  The accepted   *)
(* candidates are those the loop over the batch keeps.                     *)
C13_MinTagsDecidesOnLengthAfterAdd ==
    [][(/\ call'.op = "addTags"
        /\ call'.tag.kind # "null"
        /\ minTags # Undefined
        /\ ~NonInteractive)
       => LET accepted == addLoop(call'.tag.items, 1, <<>>, {})
          IN  IF Len(store) + Len(accepted) < minTags
              THEN store' = store /\ onChange' = <<>>
              ELSE /\ store' = store \o accepted
                   /\ accepted # <<>> => onChange' = <<store'>>]_vars

---------------------------------------------------------------------------
(* What the last keydown event did, read off the state.                    *)

\* The default binding of a key.
DefaultBinding(key) ==
    CASE key = "Enter" -> "add"
      [] key = "Backspace" -> "remove"
      [] key = "Delete" -> "remove"
      [] key = "ArrowLeft" -> "navigateLeft"
      [] key = "ArrowRight" -> "navigateRight"
      [] OTHER -> "undefined"

(* C15: the action a handler resolves for a key is the host's              *)
(* keyboardCommands entry for that key when there is one, and the default  *)
(* binding otherwise (Enter add, Backspace and Delete remove, ArrowLeft    *)
(* navigateLeft, ArrowRight navigateRight, no action for any other key): a *)
(* partial keyboardCommands leaves the other defaults in force.            *)
C15_HostEntryElseDefaultBinding ==
    (event.type = "keydown" /\ event.action # "") =>
        event.action = IF event.key \in DOMAIN keyboardCommands
                       THEN keyboardCommands[event.key]
                       ELSE DefaultBinding(event.key)

\* With only Escape bound by the host, ArrowLeft on the last tag item moved
\* the focus one item to the left.
C15_Witness ==
    /\ keyboardCommands = OnlyEscape
    /\ event.type = "keydown"
    /\ event.key = "ArrowLeft"
    /\ event.action = "navigateLeft"
    /\ event.focus = Focused(2)
    /\ focus = Focused(1)

(* C16: a tag item, item text, delete button or text input rendered        *)
(* without a controller around it, and a tag item or text input rendered   *)
(* without a group around it, throws an error with a message; the          *)
(* collection and the focus are as before and the host is not notified.    *)
C16_UseOutsideContextFails ==
    (/\ event.type = "mount"
     /\ \/ ~event.provider
        \/ ~event.group /\ event.element \in {"TagsInputItem", "TagsInputInput"})
    => /\ event.thrown # ""
       /\ store = event.store
       /\ focus = event.focus
       /\ onChange = <<>>

C18_HostPreventedEventIsLeftAlone ==
    (event.type \in {"keydown", "paste"} /\ event.defaultPrevented) =>
        /\ call.op = "none"
        /\ store = event.store
        /\ onChange = <<>>
        /\ focus = event.focus
        /\ inputValue = event.inputValue

\* The host prevented an Enter on an interactive text input whose text would
\* have been added: the text is still there and nothing was added.
C18_Witness ==
    /\ ~NonInteractive
    /\ event.type = "keydown"
    /\ event.key = "Enter"
    /\ event.defaultPrevented
    /\ event.focus = TextEntry
    /\ keyboardCommands = defaultKeyBindings
    /\ inputValue = <<97, 44, 97>>
    /\ \A k \in 1 .. Len(store) : store[k] # Letter(97)
    /\ Len(store) < MaxLen

---------------------------------------------------------------------------
(* What the last navigation key on a tag item did, read off the state.     *)

\* The last event was a key on the focused tag item that its handler resolved
\* to the action (the host did not prevent it, the item is not disabled).
NavigatedFromTag(resolved) ==
    /\ event.type = "keydown"
    /\ event.focus.at = "tag"
    /\ event.action = resolved

\* The key indexes of the tag items after / before the one the key went to
\* that are not disabled.
FollowingEnabled ==
    {k \in event.focus.keyIndex + 1 .. Len(event.store) - 1 : k \notin itemDisabled}

PrecedingEnabled ==
    {k \in 0 .. event.focus.keyIndex - 1 : k \notin itemDisabled}

Least(S) == CHOOSE k \in S : \A j \in S : k <= j
Greatest(S) == CHOOSE k \in S : \A j \in S : k >= j

(* C19: from Focused(i), NavigateRight moves the focus to the nearest      *)
(* following tag item that is not disabled, skipping the disabled ones in  *)
(* between, and to the text input when there is none (i the last tag       *)
(* included); the collection is unchanged.                                 *)
C19_NavigateRightSkipsDisabled ==
    NavigatedFromTag("navigateRight") =>
        /\ store = event.store
        /\ onChange = <<>>
        /\ focus = IF FollowingEnabled = {}
                   THEN TextEntry
                   ELSE Focused(Least(FollowingEnabled))

(* C20: from Focused(i), NavigateLeft moves the focus to the nearest       *)
(* preceding tag item that is not disabled, skipping the disabled ones in  *)
(* between, and leaves it at i when there is none; the collection is       *)
(* unchanged.                                                              *)
C20_NavigateLeftSkipsDisabled ==
    NavigatedFromTag("navigateLeft") =>
        /\ store = event.store
        /\ onChange = <<>>
        /\ focus = IF PrecedingEnabled = {}
                   THEN event.focus
                   ELSE Focused(Greatest(PrecedingEnabled))

---------------------------------------------------------------------------
(* What the last key on the text input did, read off the state.            *)

\* The last event was a key on the focused text input that its handler
\* resolved to the action (the host did not prevent it, the input is
\* interactive).
KeyOnInput(resolved) ==
    /\ event.type = "keydown"
    /\ event.focus = TextEntry
    /\ event.action = resolved

\* The key indexes of the tag items that are not disabled.
EnabledItems == {k \in 0 .. Len(event.store) - 1 : k \notin itemDisabled}

(* C21: from TextEntry with empty raw text, a Remove key moves the focus   *)
(* to the last tag item that is not disabled, never to a disabled one, and *)
(* leaves the collection as it is; with raw text in the input, or with no  *)
(* tag item that is not disabled, the focus stays in TextEntry.            *)
C21_RemoveOnEmptyInputFocusesLastEnabledTag ==
    KeyOnInput("remove") =>
        /\ store = event.store
        /\ onChange = <<>>
        /\ focus = IF event.inputValue = <<>> /\ EnabledItems # {}
                   THEN Focused(Greatest(EnabledItems))
                   ELSE TextEntry

---------------------------------------------------------------------------
(* Two calls of one handler, with no render in between.                    *)

\* The step is a call of the operation that finds a collection other than
\* the one of the last render: an earlier call of the same handler has
\* changed it.
SecondCall(op) ==
    /\ call'.op = op
    /\ call'.before = store
    /\ tags' = tags
    /\ store # tags

\* No two tags of the list have the same normalized form.
NoDuplicates(list) ==
    \A i, j \in 1 .. Len(list) :
        i < j => normalizeTag(list[i], caseSensitiveDuplicates)
                   # normalizeTag(list[j], caseSensitiveDuplicates)

(* C22: a call acts on the collection as it is when the call runs: an      *)
(* addTags call that follows another call with no render in between        *)
(* validates against the collection the earlier call has left, so a        *)
(* collection within maxTags (maxTags 1 or more) stays within it, and with *)
(* duplicates disallowed a collection without duplicates stays without.    *)
C22_SecondAddTagsSeesTheFirst ==
    [][SecondCall("addTags") =>
          /\ (Truthy(maxTags) /\ Len(store) <= maxTags) => Len(store') <= maxTags
          /\ (~allowDuplicates /\ NoDuplicates(store)) => NoDuplicates(store')]_vars

\* The list without its element at the 0-based position n.
Without(list, n) ==
    SubSeq(list, 1, n) \o SubSeq(list, n + 2, Len(list))

(* C23: no update is lost between two calls of one handler: a removeTag    *)
(* call with an index valid for the collection an earlier call of the same *)
(* handler has left (an addTags that added, or a removeTag that removed)   *)
(* yields that collection without the tag at the index.                    *)
C23_SecondRemoveTagKeepsTheFirst ==
    [][(SecondCall("removeTag") /\ ~OutsideRange(call'.index, Len(store)))
          => store' = Without(store, call'.index.n)]_vars

---------------------------------------------------------------------------
\* The tags of the list whose value is the empty string.
EmptyValued(list) ==
    {i \in 1 .. Len(list) : ~list[i].value.isNum /\ list[i].value.chars = <<>>}

(* C24: addTags called with a null input or an empty candidate (null or    *)
(* undefined, the empty list, the empty string) is a no-op: the collection *)
(* is unchanged, no tag with an empty value is added, and no change        *)
(* notification is issued.                                                 *)
C24_EmptyCandidateIsNoOp ==
    (IsAdd /\ call.tag \in EmptyInputs) =>
        /\ NothingObservable
        /\ Cardinality(EmptyValued(store)) = Cardinality(EmptyValued(call.before))

---------------------------------------------------------------------------
(* C25: removeTag makes no focus decision: a removeTag(i) call that        *)
(* removes a tag changes the collection only and leaves the focus where    *)
(* the event that made the call found it; it moves the focus neither to    *)
(* the text input nor to another tag item.                                 *)
C25_RemoveTagLeavesFocusAlone ==
    (/\ IsRemove
     /\ event.type = "keydown"
     /\ Len(store) = Len(call.before) - 1)
    => focus = event.focus

(* C26: in every reachable state the focus is exactly one of TextEntry or  *)
(* Focused(i) with 0 <= i < the length of the collection; right after a    *)
(* removal has shortened the collection the focus designates no tag index  *)
(* that no longer exists.                                                  *)
C26_FocusDesignatesAnExistingTag ==
    \/ focus = TextEntry
    \/ \E i \in 0 .. Len(store) - 1 : focus = Focused(i)

\* The focused last tag was removed with a key: its index no longer exists.
C26_Witness ==
    /\ IsRemove
    /\ event.type = "keydown"
    /\ Len(store) = Len(call.before) - 1
    /\ event.focus = Focused(Len(store))

---------------------------------------------------------------------------
\* The action the key is bound to: the host's entry, else the default one.
Bound(key) ==
    IF key \in DOMAIN keyboardCommands THEN keyboardCommands[key] ELSE DefaultBinding(key)

\* The last event was a Remove key that reached handleTagKeyDown of a tag
\* item of an interactive controller, not prevented by the host.
RemoveKeyOnItem ==
    /\ event.type = "keydown"
    /\ event.focus.at \in {"tag", "delete"}
    /\ Bound(event.key) = "remove"
    /\ ~event.defaultPrevented
    /\ ~NonInteractive

---------------------------------------------------------------------------
(* C28: from TextEntry, an Add key hands the raw text, parsed, to addTags  *)
(* and the raw text is cleared when the add succeeds (the collection has   *)
(* grown); when addTags rejects the candidates (duplicates, maxTags        *)
(* reached, below minTags) the raw text is not cleared.                    *)
C28_AddKeyClearsTextOnSuccessOnly ==
    KeyOnInput("add") =>
        /\ store # event.store => inputValue = <<>>
        /\ (call.op = "addTags" /\ store = event.store) =>
               inputValue = event.inputValue

---------------------------------------------------------------------------
(* C29: a paste into an interactive text input (the host's onPaste not     *)
(* preventing it) changes the collection as an Add of the clipboard text   *)
(* does, through the same parser and the same addTags validation, and the  *)
(* default insertion of the pasted text is always prevented: when the add  *)
(* is accepted, when it is rejected, and when the clipboard text is empty. *)
C29_PasteIsAddOfClipboardTextDefaultPrevented ==
    [][(event'.type = "paste" /\ ~event'.defaultPrevented /\ ~NonInteractive) =>
          /\ event'.preventDefault
          /\ event'.text = clipboardData
          /\ store' = IF trim(clipboardData) = <<>>
                      THEN store
                      ELSE store \o tagsToAdd(Array(processedTags(clipboardData)))]_vars

\* An empty clipboard was pasted: nothing was added and the default insertion
\* was prevented.
C29_Witness ==
    /\ event.type = "paste"
    /\ event.text = <<>>
    /\ event.preventDefault
    /\ store = event.store

---------------------------------------------------------------------------
\* The last event was a key with no mapped action, or a key or a paste on an
\* element that is not interactive: the controller disabled or read-only, or
\* the tag item disabled.
NothingToHandle ==
    /\ event.type \in {"keydown", "paste"}
    /\ \/ event.type = "keydown" /\ Bound(event.key) = "undefined"
       \/ NonInteractive
       \/ event.focus.at = "tag" /\ event.focus.keyIndex \in itemDisabled

---------------------------------------------------------------------------
\* The normalized forms of the tags of a list.
Forms(list) == {normalizeTag(list[k], caseSensitiveDuplicates) : k \in 1 .. Len(list)}

\* The candidates from the i-th on that duplicate neither a tag of the list
\* nor a candidate kept before them, in batch order.
RECURSIVE KeptFrom(_, _, _)
KeptFrom(i, list, kept) ==
    IF i > Len(Candidates) THEN kept
    ELSE IF normalizeTag(Candidates[i], caseSensitiveDuplicates)
              \in Forms(list) \cup Forms(kept)
         THEN KeptFrom(i + 1, list, kept)
         ELSE KeptFrom(i + 1, list, Append(kept, Candidates[i]))

\* The first n elements of a list (none when n is 0 or less).
Take(list, n) == SubSeq(list, 1, IF n < 0 THEN 0 ELSE Min(n, Len(list)))

(* C31: with duplicates disallowed and maxTags set, the collection after   *)
(* addTags(batch) is the previous collection followed by the first         *)
(* maxTags - length candidates, in batch order, of the batch without the   *)
(* candidates that duplicate an existing tag or an earlier kept candidate: *)
(* a skipped duplicate consumes no capacity.  (The controller is           *)
(* interactive and minTags does not reject the call.)                      *)
C31_DuplicatesSkippedThenTruncated ==
    (/\ IsAdd
     /\ ~allowDuplicates
     /\ maxTags # Undefined
     /\ ~NonInteractive
     /\ MinTagsLetsThrough)
    => store = call.before
                 \o Take(KeptFrom(1, call.before, <<>>), maxTags - Len(call.before))

---------------------------------------------------------------------------
(* C32: addTags is a no-op (no mutation, no notification) whenever minTags *)
(* is set and the collection is shorter than minTags, whatever the batch.  *)
C32_BelowMinTagsAddIsNoOp ==
    (IsAdd /\ minTags # Undefined /\ Len(call.before) < minTags)
        => NothingObservable

\* An interactive controller with minTags = 1 and no tag was handed one
\* candidate, which would have brought it to minTags.
C32_Witness ==
    /\ IsAdd
    /\ ~NonInteractive
    /\ minTags = 1
    /\ call.before = <<>>
    /\ call.tag = Single(Str(Red))
    /\ store = <<>>

---------------------------------------------------------------------------
(* C33: the positional index the group assigns to a rendered tag, which    *)
(* the tag's Remove key and delete button pass to removeTag, is the tag's  *)
(* position in the collection of that render, so a remove gesture on a tag *)
(* removes that tag and no other, whatever other children (elements, text, *)
(* empty nodes) the group holds besides the tags.                          *)
C33_GroupIndexIsPositionInCollection ==
    (event.type \in {"keydown", "click"} /\ event.position # Null) =>
        /\ event.keyIndex = event.position
        /\ store = Without(event.store, event.position)

---------------------------------------------------------------------------
(* C34: Backspace removes the last tag from the text input: from TextEntry *)
(* with empty raw text and a collection whose last tag is not disabled,    *)
(* two consecutive Remove keypresses (the first on the input, the second   *)
(* on the element that then has the focus, the host preventing neither)    *)
(* remove exactly the last tag, leave the other tags in place, and end     *)
(* with the focus back in TextEntry.                                       *)
C34_TwoRemoveKeysRemoveTheLastTag ==
    [][(/\ KeyOnInput("remove")
        /\ event.inputValue = <<>>
        /\ Len(store) > 0
        /\ (Len(store) - 1) \notin itemDisabled
        /\ event'.type = "keydown"
        /\ Bound(event'.key) = "remove"
        /\ ~event'.defaultPrevented)
       => /\ store' = SubSeq(store, 1, Len(store) - 1)
          /\ focus' = TextEntry]_vars

\* Backspace on the last of three tags removed it and left the focus in the
\* text input.
C34_Witness ==
    /\ IsRemove
    /\ event.type = "keydown"
    /\ event.key = "Backspace"
    /\ event.focus = Focused(2)
    /\ store = SubSeq(ABC, 1, 2)
    /\ focus = TextEntry

---------------------------------------------------------------------------
(* C35: maxTags is a hard ceiling for every value supplied, 0 included:    *)
(* with maxTags = 0 every addTags call is rejected (no mutation, no        *)
(* notification), so an empty collection stays empty.                      *)
C35_MaxTagsZeroRejectsEveryAdd ==
    (IsAdd /\ maxTags = 0) => NothingObservable

---------------------------------------------------------------------------
(* C36: with duplicates disallowed, a collection whose tags have pairwise  *)
(* distinct normalized forms keeps that property through every addTags     *)
(* and removeTag call made one per render pass, so every collection        *)
(* reachable from such an initial collection has it.                       *)
C36_DistinctFormsArePreserved ==
    [][(~allowDuplicates /\ NoDuplicates(store)) => NoDuplicates(store')]_vars

\* An addTags call on a collection without duplicates has appended a tag and
\* has left out a candidate whose form the collection already had.
C36_Witness ==
    /\ IsAdd
    /\ ~allowDuplicates
    /\ call.before # <<>>
    /\ NoDuplicates(call.before)
    /\ \E i \in 1 .. Len(Candidates) :
           normalizeTag(Candidates[i], caseSensitiveDuplicates) \in Forms(call.before)
    /\ Added # <<>>
    /\ NoDuplicates(store)

---------------------------------------------------------------------------
---------------------------------------------------------------------------
\* The candidate the parser produces for the raw text p, a piece with no
\* delimiter in it, pasted alone.
Alone(p) == processedTags(p)[1]

(* C38: the parser treats a piece the same way alone and inside delimited  *)
(* text: when a text with a delimiter in it is parsed (by a text input     *)
(* whose regex starts at 0), every non-empty piece of it yields, among the *)
(* candidates handed to addTags, the candidate the piece yields when it is *)
(* the whole raw text -- numeric-looking pieces such as 0 included.        *)
C38_PieceAloneOrInDelimitedText ==
    [][(/\ lastIndex = 0
        /\ event'.type = "paste"
        /\ ~event'.defaultPrevented
        /\ DelimiterMatches(trim(event'.text)))
          => LET pieces == NonEmptyTrimmed(split(trim(event'.text), 1, 1))
             IN  /\ call'.op = "addTags"
                 /\ \A i \in 1 .. Len(pieces) :
                        \E j \in 1 .. Len(call'.tag.items) :
                            call'.tag.items[j] = Alone(pieces[i])]_vars

---------------------------------------------------------------------------
\* The last event was a key bound to the navigation action, on a focused tag
\* item of an interactive controller, and the host did not prevent it.
NavigationKeyOnTag(bound) ==
    /\ event.type = "keydown"
    /\ event.focus.at = "tag"
    /\ Bound(event.key) = bound
    /\ ~event.defaultPrevented
    /\ ~NonInteractive

(* C39: navigation terminates and leaves the collection alone: from        *)
(* Focused(i), every NavigateRight key moves the focus strictly to the     *)
(* right (a later tag item, or the text input), so that the text input is  *)
(* reached within length - i keys; a NavigateLeft key never moves it to    *)
(* the right, so repeating it ends at a tag item it no longer leaves.      *)
C39_NavigationMakesProgress ==
    /\ NavigationKeyOnTag("navigateRight") =>
           /\ store = event.store
           /\ \/ focus = TextEntry
              \/ focus.at = "tag" /\ focus.keyIndex > event.focus.keyIndex
    /\ NavigationKeyOnTag("navigateLeft") =>
           /\ store = event.store
           /\ focus.at = "tag"
           /\ focus.keyIndex <= event.focus.keyIndex

---------------------------------------------------------------------------
(* C40: addTags applies one minTags policy: a batch that passes the        *)
(* pre-check (the collection is not shorter than minTags) is never         *)
(* rejected by the check made after the loop, so the call appends what the *)
(* loop accepted, and the call changes nothing when a check made before    *)
(* the loop returns.                                                       *)
C40_PreCheckAloneDecides ==
    [][call'.op = "addTags" =>
          store' = IF addTagsReturnsEarly(call'.tag)
                   THEN store
                   ELSE store \o addLoop(arrayTags(call'.tag), 1, <<>>, {})]_vars

\* A collection of exactly minTags tags was handed a batch of which one
\* candidate was accepted and another left out.
C40_Witness ==
    /\ IsAdd
    /\ ~NonInteractive
    /\ Truthy(minTags)
    /\ Len(call.before) = minTags
    /\ Len(call.tag.items) > 1
    /\ Len(Added) = 1
    /\ store = call.before \o Added

====
